---- MODULE Spec2Model ----
(***************************************************************************)
(* Interval algebra of freecal (src/main.go): overlaps, mergeIntervals and *)
(* findFreeSlots.  A time.Time is an integer number of minutes (for        *)
(* findFreeSlots, minutes since local midnight); ZeroTime is the zero      *)
(* time.Time.  An interval is a record [start, end], a slice a sequence.   *)
(***************************************************************************)
EXTENDS Integers, Sequences, FiniteSets, TLC

VARIABLES
    pc,        \* position of the caller
    a, b,      \* arguments of overlaps
    res,       \* result of overlaps(a, b): [iv, ok]
    in,        \* the slice handed to mergeIntervals (sorted in place by the call)
    in0,       \* the slice as it was before the first call
    out,       \* result of mergeIntervals(in)
    out2,      \* result of mergeIntervals(out)
    dayStart, dayEnd, busyAll, minDur,   \* arguments of findFreeSlots
    busy,      \* findFreeSlots: clipped, then merged busy intervals
    k,         \* findFreeSlots: number of merged busy intervals swept so far
    cursor,    \* findFreeSlots: the sweep cursor
    free,      \* findFreeSlots: free intervals before the filter
    slots,     \* findFreeSlots: the returned strings
    clockStr,  \* argument of mustParseClock, a sequence of characters
    clockRes,  \* result of mustParseClock: <<hour, minute>>
    events,    \* argument of eventsToIntervals
    work,      \* main: the work hours [ws, we], minutes after midnight
    startDate, endDate,   \* main: the first and the last date, in days
    day,       \* main: the loop variable
    visited,   \* main: the dates the loop body ran for, in order
    printed    \* main: the lines printed, [date, slots] each

vars == <<pc, a, b, res, in, in0, out, out2, dayStart, dayEnd, busyAll, minDur,
          busy, k, cursor, free, slots, clockStr, clockRes, events, work,
          startDate, endDate, day, visited, printed>>

overlapsVars == <<a, b, res>>
mergeVars == <<in, in0, out, out2>>
freeVars == <<dayStart, dayEnd, busyAll, minDur, busy, k, cursor, free, slots>>
clockVars == <<clockStr, clockRes>>
loopVars == <<work, startDate, endDate, day, visited, printed>>
mainVars == <<clockVars, events, loopVars>>

----------------------------------------------------------------------------
(* Bounds *)

\* the inputs of overlaps and mergeIntervals hold the times 0..MaxT, those of
\* findFreeSlots the times DayBase..DayBase+MaxT
MaxT == 4
\* the first time of the findFreeSlots inputs: 09:58, two minutes before the hour
DayBase == 598
\* longest slice handed to mergeIntervals
MaxLen == 3
\* longest busyAll handed to findFreeSlots
MaxBusy == 2

----------------------------------------------------------------------------
(* Values *)

\* time.Time{}: the zero time, start and end of interval{}
ZeroTime == 0

Times == 0..MaxT
DayTimes == DayBase..(DayBase + MaxT)

\* time.Duration values handed to findFreeSlots (flag -min may be zero or negative)
Durations == (0 - 1)..MaxT

\* type interval struct { start, end time.Time }
Interval(T) == [start : T, end : T]

\* the defaults of the flags -workstart, -workend and -min, in minutes
WorkStartDefault == 540
WorkEndDefault == 1020
MinMinutesDefault == 60

\* interval{}
EmptyInterval == [start |-> ZeroTime, end |-> ZeroTime]

----------------------------------------------------------------------------
(* overlaps *)

\* overlaps with the final comparison made non-strict (!e.Before(s))
overlaps_NonStrict(x, y) ==
    LET s == IF y.start > x.start THEN y.start ELSE x.start
        e == IF y.end < x.end THEN y.end ELSE x.end
    IN  IF e >= s
        THEN [iv |-> [start |-> s, end |-> e], ok |-> TRUE]
        ELSE [iv |-> EmptyInterval, ok |-> FALSE]

\* overlaps that returns the clipped interval on the not-found path too
overlaps_KeepsInterval(x, y) ==
    LET s == IF y.start > x.start THEN y.start ELSE x.start
        e == IF y.end < x.end THEN y.end ELSE x.end
    IN  [iv |-> [start |-> s, end |-> e], ok |-> e > s]

\* overlaps that never lowers e to b.end
overlaps_EndOfFirst(x, y) ==
    LET s == IF y.start > x.start THEN y.start ELSE x.start
        e == x.end
    IN  IF e > s
        THEN [iv |-> [start |-> s, end |-> e], ok |-> TRUE]
        ELSE [iv |-> EmptyInterval, ok |-> FALSE]

overlaps(x, y) ==
    LET s == IF y.start > x.start THEN y.start ELSE x.start
        e == IF y.end < x.end THEN y.end ELSE x.end
    IN  IF e > s
        THEN [iv |-> [start |-> s, end |-> e], ok |-> TRUE]
        ELSE [iv |-> EmptyInterval, ok |-> FALSE]

----------------------------------------------------------------------------
(* mergeIntervals *)

\* the comparison handed to sort.Slice
less(x, y) == x.start < y.start

Swap(s, i, j) == [s EXCEPT ![i] = s[j], ![j] = s[i]]

\* sort.Slice on a slice of at most 12 elements is an insertion sort:
\* for i := a+1; i < b; i++ { for j := i; j > a && less(j, j-1); j-- { swap(j, j-1) } }
RECURSIVE SiftDown(_, _)
SiftDown(s, j) ==
    IF j > 1 /\ less(s[j], s[j - 1]) THEN SiftDown(Swap(s, j, j - 1), j - 1) ELSE s

RECURSIVE SortFrom(_, _)
SortFrom(s, i) == IF i > Len(s) THEN s ELSE SortFrom(SiftDown(s, i), i + 1)

\* the slice left in the order it was given
sortSlice_None(s) == s

sortSlice(s) == SortFrom(s, 2)

\* the loop step with !cur.start.Before(last.end) as its first test
mergeStep_AdjacentSplit(acc, cur) ==
    LET last == acc[Len(acc)]
    IN  IF cur.start >= last.end THEN Append(acc, cur)
        ELSE IF cur.end > last.end THEN [acc EXCEPT ![Len(acc)].end = cur.end]
        ELSE acc

\* the loop step without the else-if branch that extends last.end
mergeStep_NoExtend(acc, cur) ==
    LET last == acc[Len(acc)]
    IN  IF cur.start > last.end THEN Append(acc, cur) ELSE acc

\* one iteration of the loop over in[1:]
mergeStep(acc, cur) ==
    LET last == acc[Len(acc)]
    IN  IF cur.start > last.end THEN Append(acc, cur)
        ELSE IF cur.end > last.end THEN [acc EXCEPT ![Len(acc)].end = cur.end]
        ELSE acc

RECURSIVE mergeLoop(_, _, _)
mergeLoop(s, i, acc) ==
    IF i > Len(s) THEN acc ELSE mergeLoop(s, i + 1, mergeStep(acc, s[i]))

\* mergeIntervals ranging over in instead of in[1:]
mergeIntervals_RangeAll(s) ==
    IF Len(s) = 0 THEN <<>>
    ELSE LET sorted == sortSlice(s) IN mergeLoop(sorted, 1, <<sorted[1]>>)

\* mergeIntervals without its guard
mergeReturnsNil_Never(s) == FALSE

\* if len(in) == 0 { return nil }
mergeReturnsNil(s) == Len(s) = 0

\* in[0] is read past the guard: the call panics when the index is out of range
mergePanics(s) == ~mergeReturnsNil(s) /\ 1 \notin DOMAIN s

\* the value mergeIntervals returns; nil is the empty sequence
mergeIntervals(s) ==
    IF mergeReturnsNil(s) THEN <<>>
    ELSE LET sorted == sortSlice(s) IN mergeLoop(sorted, 2, <<sorted[1]>>)

\* the caller's slice after the call: sort.Slice sorts it in place
sliceAfterMerge(s) == IF mergeReturnsNil(s) THEN s ELSE sortSlice(s)

----------------------------------------------------------------------------
(* findFreeSlots *)

\* every busy interval kept as it is, clipped or not
clipBusy_All(s, win) == s

\* the loop over busyAll: the overlaps of each busy interval with the day window
RECURSIVE clipBusy(_, _)
clipBusy(s, win) ==
    IF s = <<>> THEN <<>>
    ELSE LET r == overlaps(Head(s), win)
         IN  (IF r.ok THEN <<r.iv>> ELSE <<>>) \o clipBusy(Tail(s), win)

\* busy built in place over the storage of busyAll (busy := busyAll[:0]) and
\* sorted there by mergeIntervals
busyAllAfterCollect_Aliased(ba, clipped) ==
    sliceAfterMerge(clipped) \o SubSeq(ba, Len(clipped) + 1, Len(ba))

\* the caller's busyAll after the collect loop and mergeIntervals(busy): busy
\* starts as a nil slice and grows by append, so the slice that sort.Slice
\* reorders shares no storage with busyAll
busyAllAfterCollect(ba, clipped) == ba

\* the sweep emitting a gap when the busy interval does not start before the cursor
sweepEmits_NonStrict(cur, bz) == bz.start >= cur

\* if b.start.After(cursor): a free interval [cursor, b.start) is appended
sweepEmits(cur, bz) == bz.start > cur

\* the cursor moved to the start of the busy interval
sweepCursor_Start(cur, bz) == IF bz.start > cur THEN bz.start ELSE cur

\* if b.end.After(cursor) { cursor = b.end }
sweepCursor(cur, bz) == IF bz.end > cur THEN bz.end ELSE cur

\* the tail gap emitted when the cursor is not after the end of the window
tailIsFree_NonStrict(cur, dend) == cur <= dend

\* if cursor.Before(dayEnd): a free interval [cursor, dayEnd) is appended
tailIsFree(cur, dend) == cur < dend

\* the filter with a strict comparison
keepsSlot_Strict(f, min) == f.end - f.start > min

\* if f.end.Sub(f.start) >= minDur
keepsSlot(f, min) == f.end - f.start >= min

\* t.Hour() and t.Minute() of a time counted in minutes
Hour(t) == (t \div 60) % 24
Minute(t) == t % 60

\* %d in place of %02d
Pad2_NoPad(n) == ToString(n)

\* %02d
Pad2(n) == IF n < 10 THEN "0" \o ToString(n) ELSE ToString(n)

\* fmt.Sprintf("%02d:%02d~%02d:%02d", ...)
formatSlot(f) ==
    Pad2(Hour(f.start)) \o ":" \o Pad2(Minute(f.start)) \o "~"
        \o Pad2(Hour(f.end)) \o ":" \o Pad2(Minute(f.end))

\* the loop over free: the formatted intervals that pass the filter
RECURSIVE filterSlots(_, _)
filterSlots(s, min) ==
    IF s = <<>> THEN <<>>
    ELSE (IF keepsSlot(Head(s), min) THEN <<formatSlot(Head(s))>> ELSE <<>>)
             \o filterSlots(Tail(s), min)

\* the loop over busy, from the cursor cur with the free intervals fr so far
RECURSIVE sweep(_, _, _)
sweep(bz, cur, fr) ==
    IF bz = <<>> THEN [cursor |-> cur, free |-> fr]
    ELSE sweep(Tail(bz), sweepCursor(cur, Head(bz)),
               IF sweepEmits(cur, Head(bz))
               THEN Append(fr, [start |-> cur, end |-> Head(bz).start])
               ELSE fr)

\* findFreeSlots(dayStart, dayEnd, busyAll, minDur) as one function of its arguments
findFreeSlots(ds, de, ba, md) ==
    LET bz == mergeIntervals(clipBusy(ba, [start |-> ds, end |-> de]))
        sw == sweep(bz, ds, <<>>)
        fr == IF tailIsFree(sw.cursor, de)
              THEN Append(sw.free, [start |-> sw.cursor, end |-> de])
              ELSE sw.free
    IN  filterSlots(fr, md)

----------------------------------------------------------------------------
(* The variables a specification does not use keep these values *)

IdleOverlaps ==
    a = EmptyInterval /\ b = EmptyInterval /\ res = [iv |-> EmptyInterval, ok |-> FALSE]

IdleMerge == in = <<>> /\ in0 = <<>> /\ out = <<>> /\ out2 = <<>>

IdleSweep == busy = <<>> /\ k = 0 /\ cursor = ZeroTime /\ free = <<>> /\ slots = <<>>

IdleFree ==
    /\ dayStart = ZeroTime /\ dayEnd = ZeroTime /\ busyAll = <<>> /\ minDur = 0
    /\ IdleSweep

IdleClock == clockStr = <<>> /\ clockRes = <<>>

IdleLoop ==
    /\ work = [ws |-> 0, we |-> 0]
    /\ startDate = 0 /\ endDate = 0 /\ day = 0
    /\ visited = <<>> /\ printed = <<>>

IdleMain == IdleClock /\ events = <<>> /\ IdleLoop

----------------------------------------------------------------------------
(* Specification of overlaps: any two intervals, degenerate ones included *)

InitOverlaps ==
    /\ pc = "start"
    /\ a \in Interval(Times)
    /\ b \in Interval(Times)
    /\ res = [iv |-> EmptyInterval, ok |-> FALSE]
    /\ IdleMerge /\ IdleFree /\ IdleMain

CallOverlaps ==
    /\ pc = "start"
    /\ res' = overlaps(a, b)
    /\ pc' = "overlapped"
    /\ UNCHANGED <<a, b, mergeVars, freeVars, mainVars>>

NextOverlaps == CallOverlaps

SpecOverlaps == InitOverlaps /\ [][NextOverlaps]_vars

----------------------------------------------------------------------------
(* Specification of mergeIntervals: any slice, called on its own result too *)

InitMerge ==
    /\ pc = "start"
    /\ \E n \in 0..MaxLen : in \in [1..n -> Interval(Times)]
    /\ in0 = in
    /\ out = <<>> /\ out2 = <<>>
    /\ IdleOverlaps /\ IdleFree /\ IdleMain

\* out := mergeIntervals(in)
CallMerge ==
    /\ pc = "start"
    /\ IF mergePanics(in)
       THEN pc' = "panic" /\ UNCHANGED <<in, out>>
       ELSE /\ out' = mergeIntervals(in)
            /\ in' = sliceAfterMerge(in)
            /\ pc' = "merged"
    /\ UNCHANGED <<in0, out2, overlapsVars, freeVars, mainVars>>

\* out2 := mergeIntervals(out)
CallMergeAgain ==
    /\ pc = "merged"
    /\ IF mergePanics(out)
       THEN pc' = "panic" /\ UNCHANGED <<out, out2>>
       ELSE /\ out2' = mergeIntervals(out)
            /\ out' = sliceAfterMerge(out)
            /\ pc' = "remerged"
    /\ UNCHANGED <<in, in0, overlapsVars, freeVars, mainVars>>

NextMerge == CallMerge \/ CallMergeAgain

SpecMerge == InitMerge /\ [][NextMerge]_vars

----------------------------------------------------------------------------
(* Specification of findFreeSlots: any day window, any minimum duration and   *)
(* any busy intervals eventsToIntervals can produce (end after start)         *)

BusyIntervals == {iv \in Interval(DayTimes) : iv.start < iv.end}

\* any window, busy list and minimum duration within the bounds
BoundedInputs ==
    /\ dayStart \in DayTimes
    /\ dayEnd \in DayTimes
    /\ \E n \in 0..MaxBusy : busyAll \in [1..n -> BusyIntervals]
    /\ minDur \in Durations

\* the default work day 09:00-17:00 with no event, or with events at
\* 10:00-10:30 and 10:45-11:15, and a minimum of 30 or 60 minutes
ExampleBusy ==
    <<[start |-> 10 * 60, end |-> 10 * 60 + 30],
      [start |-> 10 * 60 + 45, end |-> 11 * 60 + 15]>>

ExampleInputs ==
    /\ dayStart = WorkStartDefault
    /\ dayEnd = WorkEndDefault
    /\ busyAll \in {<<>>, ExampleBusy}
    /\ minDur \in {30, MinMinutesDefault}

Init ==
    /\ pc = "start"
    /\ (BoundedInputs \/ ExampleInputs)
    /\ IdleSweep
    /\ IdleOverlaps /\ IdleMerge /\ IdleMain

\* busy = mergeIntervals(overlaps of busyAll with the day window); cursor := dayStart
CollectBusy ==
    /\ pc = "start"
    /\ LET clipped == clipBusy(busyAll, [start |-> dayStart, end |-> dayEnd])
       IN  IF mergePanics(clipped)
           THEN pc' = "panic" /\ UNCHANGED <<busy, cursor, k>>
           ELSE /\ busy' = mergeIntervals(clipped)
                /\ cursor' = dayStart
                /\ k' = 0
                /\ pc' = "sweep"
           /\ busyAll' = busyAllAfterCollect(busyAll, clipped)
    /\ UNCHANGED <<dayStart, dayEnd, minDur, free, slots, overlapsVars, mergeVars, mainVars>>

\* one iteration of the loop over busy
SweepStep ==
    /\ pc = "sweep"
    /\ k < Len(busy)
    /\ LET bz == busy[k + 1]
       IN  /\ free' = IF sweepEmits(cursor, bz)
                      THEN Append(free, [start |-> cursor, end |-> bz.start])
                      ELSE free
           /\ cursor' = sweepCursor(cursor, bz)
    /\ k' = k + 1
    /\ UNCHANGED <<pc, dayStart, dayEnd, busyAll, minDur, busy, slots, overlapsVars, mergeVars, mainVars>>

\* after the loop: the gap between the cursor and the end of the window
SweepEnd ==
    /\ pc = "sweep"
    /\ k = Len(busy)
    /\ free' = IF tailIsFree(cursor, dayEnd)
               THEN Append(free, [start |-> cursor, end |-> dayEnd])
               ELSE free
    /\ pc' = "swept"
    /\ UNCHANGED <<dayStart, dayEnd, busyAll, minDur, busy, k, cursor, slots, overlapsVars, mergeVars, mainVars>>

\* the filter by minDur and the formatting of the slots that pass
FilterSlots ==
    /\ pc = "swept"
    /\ slots' = filterSlots(free, minDur)
    /\ pc' = "done"
    /\ UNCHANGED <<dayStart, dayEnd, busyAll, minDur, busy, k, cursor, free, overlapsVars, mergeVars, mainVars>>

Next == CollectBusy \/ SweepStep \/ SweepEnd \/ FilterSlots

Spec == Init /\ [][Next]_vars

----------------------------------------------------------------------------
(* Properties of overlaps (SpecOverlaps) *)

MaxOf(x, y) == IF x >= y THEN x ELSE y
MinOf(x, y) == IF x <= y THEN x ELSE y

\* C1: overlaps(a, b) reports found exactly when min(a.end, b.end) is strictly
\* after max(a.start, b.start); when found the returned interval is
\* [max(a.start, b.start), min(a.end, b.end)), and when not found it is the
\* zero interval.
C1_OverlapsContract ==
    pc = "overlapped" =>
        LET s == MaxOf(a.start, b.start)
            e == MinOf(a.end, b.end)
        IN  /\ res.ok <=> e > s
            /\ res.ok => res.iv = [start |-> s, end |-> e]
            /\ ~res.ok => res.iv = EmptyInterval

\* a partial overlap was found, and its bounds come from different arguments
C1_Witness ==
    /\ pc = "overlapped"
    /\ a.start < b.start /\ b.start < a.end /\ a.end < b.end
    /\ res.ok /\ res.iv = [start |-> b.start, end |-> a.end]

\* C3: overlaps is symmetric: overlaps(a, b) and overlaps(b, a) return the same
\* found flag and the same interval, for degenerate intervals too.
C3_OverlapsSymmetric ==
    pc = "overlapped" => res = overlaps(b, a)

\* two different intervals, one of them degenerate, and two that overlap
C3_Witness ==
    /\ pc = "overlapped"
    /\ a # b
    /\ \/ a.end < a.start /\ b.start < b.end /\ ~res.ok
       \/ res.ok /\ res.iv # a /\ res.iv # b

----------------------------------------------------------------------------
(* Properties of mergeIntervals (SpecMerge) *)

NonEmpty(iv) == iv.start < iv.end
WellFormed(iv) == iv.start <= iv.end

\* the instants an interval and a sequence of intervals cover
Instants(iv) == {t \in Times : iv.start <= t /\ t < iv.end}
Covered(s) == UNION {Instants(s[i]) : i \in DOMAIN s}

\* the number of maximal runs of consecutive instants in S: the least number of
\* disjoint intervals that cover exactly S
Runs(S) == Cardinality({t \in S : t - 1 \notin S})

Contains(x, y) == x.start <= y.start /\ x.end >= y.end

\* C2: for non-empty a and b with a.end = b.start, overlaps(a, b) reports
\* not-found while mergeIntervals([a, b]) returns the single interval
\* [a.start, b.end).
C2_AdjacencyAsymmetry ==
    (/\ pc = "merged"
     /\ Len(in0) = 2
     /\ NonEmpty(in0[1]) /\ NonEmpty(in0[2])
     /\ in0[1].end = in0[2].start)
    => /\ ~overlaps(in0[1], in0[2]).ok
       /\ out = <<[start |-> in0[1].start, end |-> in0[2].end]>>

C2_Witness ==
    /\ pc = "merged"
    /\ Len(in0) = 2
    /\ NonEmpty(in0[1]) /\ NonEmpty(in0[2])
    /\ in0[1].end = in0[2].start
    /\ Len(out) = 1

\* C4: mergeIntervals is idempotent: merging the result of a merge returns that
\* result again, element by element, for any input sequence.
C4_MergeIdempotent ==
    [][(pc = "merged" /\ pc' = "remerged") => out2' = out]_vars

\* an unsorted input with a degenerate interval and equal starts was merged twice
C4_Witness ==
    /\ pc = "remerged"
    /\ Len(out2) >= 2
    /\ \E i \in DOMAIN in0 : in0[i].end < in0[i].start
    /\ \E i, j \in DOMAIN in0 : i < j /\ in0[j].start < in0[i].start
    /\ \E i, j \in DOMAIN in0 : i < j /\ in0[j].start = in0[i].start

\* C5: the output of mergeIntervals is ascending by start, and consecutive
\* elements neither overlap nor touch: out[i].end is strictly before
\* out[i+1].start.  Starts are strictly ascending when no input interval has
\* its end before its start.
C5_MergeOutputOrdered ==
    pc = "merged" =>
        \A i \in 1..(Len(out) - 1) :
            /\ out[i].start <= out[i + 1].start
            /\ out[i].end < out[i + 1].start
            /\ (\A j \in DOMAIN in0 : WellFormed(in0[j]))
                   => out[i].start < out[i + 1].start

\* an input given in descending order produced two output intervals
C5_Witness ==
    /\ pc = "merged"
    /\ Len(in0) >= 2
    /\ \A i \in 1..(Len(in0) - 1) : in0[i + 1].start < in0[i].start
    /\ Len(out) >= 2

\* C6: for non-empty input intervals the output covers exactly the instants the
\* input covers, and no smaller number of disjoint intervals covers that set.
C6_MergeCoversExactly ==
    (pc = "merged" /\ \A j \in DOMAIN in0 : NonEmpty(in0[j])) =>
        /\ Covered(out) = Covered(in0)
        /\ \A i \in DOMAIN out : NonEmpty(out[i])
        /\ \A i, j \in DOMAIN out : i # j => Instants(out[i]) \cap Instants(out[j]) = {}
        /\ Len(out) = Runs(Covered(in0))

\* three non-empty intervals, two of them overlapping, coalesced into two
C6_Witness ==
    /\ pc = "merged"
    /\ Len(in0) = 3
    /\ \A j \in DOMAIN in0 : NonEmpty(in0[j])
    /\ Len(out) = 2
    /\ \E i \in DOMAIN out : \A j \in DOMAIN in0 : out[i] # in0[j]

\* an input interval that contains every other input interval
Container(s, i) == \A j \in DOMAIN s : Contains(s[i], s[j])

\* C7 as stated: whenever the input holds an interval that contains every
\* other input interval, the output is exactly that one interval.
C7_ContainmentAnyInput ==
    pc = "merged" =>
        \A i \in DOMAIN in0 : Container(in0, i) => out = <<in0[i]>>

\* C7, amended: whenever no input interval has its end before its start and
\* the input holds an interval that contains every other input interval, the
\* output is exactly that one interval, whatever the input order.
C7_ContainmentWellFormed ==
    (pc = "merged" /\ \A j \in DOMAIN in0 : WellFormed(in0[j])) =>
        \A i \in DOMAIN in0 : Container(in0, i) => out = <<in0[i]>>

\* the containing interval came last, after two different intervals it contains
C7_Witness ==
    /\ pc = "merged"
    /\ Len(in0) = 3
    /\ \A j \in DOMAIN in0 : WellFormed(in0[j])
    /\ Container(in0, 3)
    /\ in0[1] # in0[3] /\ in0[2] # in0[3] /\ in0[1] # in0[2]
    /\ in0[2].start < in0[1].start
    /\ out = <<in0[3]>>

\* C8: mergeIntervals is total: the call never panics, an empty input yields
\* the empty (nil) result and a non-empty input a non-empty one.
C8_MergeTotal ==
    /\ pc # "panic"
    /\ pc = "merged" => (Len(in0) = 0 <=> Len(out) = 0)

\* the empty input was merged into the empty result
C8_Witness ==
    /\ pc = "merged"
    /\ in0 = <<>>
    /\ out = <<>>

\* C18: after mergeIntervals(in) returns, the caller's slice holds the same
\* intervals, with the same start and end, at the same positions as before
\* the call.
C18_ArgumentUnchanged ==
    pc = "merged" => in = in0

----------------------------------------------------------------------------
(* Properties of findFreeSlots (Spec) *)

\* an instant of the day window that no busy interval covers
IsFree(t) ==
    /\ dayStart <= t /\ t < dayEnd
    /\ \A i \in DOMAIN busyAll : ~(busyAll[i].start <= t /\ t < busyAll[i].end)

FreeInstants == {t \in dayStart..(dayEnd - 1) : IsFree(t)}

\* the maximal intervals of free instants: each starts at a free instant whose
\* predecessor is not free and ends at the first instant after it that is not
MaximalFree ==
    LET starts == {t \in dayStart..(dayEnd - 1) : IsFree(t) /\ ~IsFree(t - 1)}
        RunEnd(s) == CHOOSE e \in (s + 1)..dayEnd :
                         ~IsFree(e) /\ \A u \in (s + 1)..(e - 1) : IsFree(u)
    IN  {[start |-> s, end |-> RunEnd(s)] : s \in starts}

Duration(iv) == iv.end - iv.start

\* C9: for a day window with start < end and non-empty busy intervals, the free
\* intervals derived before the minimum-duration filter are exactly the maximal
\* sub-intervals of [dayStart, dayEnd) that no busy interval covers, in
\* ascending order.
C9_FreeIsMaximalGaps ==
    (pc \in {"swept", "done"} /\ dayStart < dayEnd) =>
        /\ \A i \in 1..(Len(free) - 1) : free[i].start < free[i + 1].start
        /\ {free[i] : i \in DOMAIN free} = MaximalFree

\* two overlapping busy intervals given in descending order left a gap on
\* either side
C9_Witness ==
    /\ pc = "swept"
    /\ dayStart < dayEnd
    /\ Len(busyAll) = 2
    /\ busyAll[2].start < busyAll[1].start
    /\ busyAll[1].start < busyAll[2].end
    /\ Len(free) = 2

\* C10: the minimum-duration filter is inclusive: a free gap is returned
\* exactly when its duration is >= minDur, so a gap of exactly minDur is
\* returned and a gap one unit shorter is not.
C10_FilterInclusive ==
    pc = "done" =>
        LET kept == {i \in DOMAIN free : Duration(free[i]) >= minDur}
        IN  /\ Len(slots) = Cardinality(kept)
            /\ \A i \in DOMAIN free :
                   (\E j \in DOMAIN slots : slots[j] = formatSlot(free[i]))
                       <=> i \in kept

\* of two gaps, the one of exactly minDur was returned and the one a unit
\* shorter was not
C10_Witness ==
    /\ pc = "done"
    /\ Len(free) = 2
    /\ \E i, j \in DOMAIN free :
           /\ Duration(free[i]) = minDur
           /\ Duration(free[j]) = minDur - 1
           /\ slots = <<formatSlot(free[i])>>

\* the day window as an interval
Window == [start |-> dayStart, end |-> dayEnd]

\* no busy interval overlaps the day window: each lies outside it or only
\* touches it
NoBusyInWindow ==
    \A i \in DOMAIN busyAll :
        busyAll[i].end <= dayStart \/ busyAll[i].start >= dayEnd

\* HH:MM~HH:MM, zero-padded, 24-hour: the text of a slot, digit by digit
Digits == <<"0", "1", "2", "3", "4", "5", "6", "7", "8", "9">>
TwoDigits(n) == Digits[(n \div 10) + 1] \o Digits[(n % 10) + 1]
ClockText(t) ==
    LET m == t % (24 * 60) IN TwoDigits(m \div 60) \o ":" \o TwoDigits(m % 60)
SlotText(iv) == ClockText(iv.start) \o "~" \o ClockText(iv.end)

\* C11 as stated: when no busy interval overlaps the day window, findFreeSlots
\* returns exactly one slot, the whole window, if the window's duration is
\* >= minDur, and no slot otherwise.
C11_IdleDayAnyWindow ==
    (pc = "done" /\ NoBusyInWindow) =>
        slots = IF Duration(Window) >= minDur THEN <<SlotText(Window)>> ELSE <<>>

\* C11, amended: for a day window with dayStart < dayEnd that no busy interval
\* overlaps, findFreeSlots returns exactly one slot, the whole window, if the
\* window's duration is >= minDur, and no slot otherwise.
C11_IdleDay ==
    (pc = "done" /\ dayStart < dayEnd /\ NoBusyInWindow) =>
        slots = IF Duration(Window) >= minDur THEN <<SlotText(Window)>> ELSE <<>>

\* a busy interval before the window and one that touches its end; the whole
\* window of exactly minDur is returned
C11_Witness ==
    /\ pc = "done"
    /\ dayStart < dayEnd
    /\ Len(busyAll) = 2
    /\ busyAll[1].start = dayEnd
    /\ busyAll[2].end < dayStart
    /\ Duration(Window) = minDur
    /\ slots = <<SlotText(Window)>>

LongEnough(iv) == Duration(iv) >= minDur

\* C12: with the window 09:00-17:00, busy 10:00-10:30 and 10:45-11:15 and a
\* minimum of 30 minutes the result is exactly "09:00~10:00", "11:15~17:00";
\* in general the result is the free gaps of at least minDur with their own
\* bounds, in order, each as zero-padded HH:MM~HH:MM.
C12_EndToEnd ==
    pc = "done" =>
        /\ (/\ dayStart = 9 * 60 /\ dayEnd = 17 * 60
            /\ busyAll = ExampleBusy /\ minDur = 30)
               => slots = <<"09:00~10:00", "11:15~17:00">>
        /\ LET kept == SelectSeq(free, LongEnough)
           IN  slots = [i \in 1..Len(kept) |-> SlotText(kept[i])]

\* the example day was processed: three gaps, the 15-minute one dropped
C12_Witness ==
    /\ pc = "done"
    /\ dayStart = 9 * 60 /\ dayEnd = 17 * 60
    /\ busyAll = ExampleBusy /\ minDur = 30
    /\ Len(free) = 3
    /\ slots = <<"09:00~10:00", "11:15~17:00">>

\* C13: when dayEnd is not after dayStart, findFreeSlots returns no slot for
\* every busy list and every minDur, zero and negative included, and does not
\* panic.
C13_DegenerateWindow ==
    /\ pc # "panic"
    /\ (pc \in {"swept", "done"} /\ dayEnd <= dayStart) => free = <<>>
    /\ (pc = "done" /\ dayEnd <= dayStart) => slots = <<>>

\* a window that ends before it starts, under two busy intervals that span
\* it, with a negative minimum
C13_Witness ==
    /\ pc = "done"
    /\ dayEnd < dayStart
    /\ minDur < 0
    /\ Len(busyAll) = 2
    /\ \A i \in DOMAIN busyAll : busyAll[i].start <= dayEnd /\ busyAll[i].end >= dayStart
    /\ slots = <<>>

\* an instant covered by a busy interval already swept, by an emitted free interval
InSweptBusy(t) == \E j \in 1..k : busy[j].start <= t /\ t < busy[j].end
InFree(t) == \E i \in DOMAIN free : free[i].start <= t /\ t < free[i].end

C19_State ==
    (pc \in {"sweep", "swept", "done"} /\ dayStart <= dayEnd) =>
        /\ dayStart <= cursor /\ cursor <= dayEnd
        /\ \A i \in DOMAIN free :
               /\ free[i].start < free[i].end
               /\ dayStart <= free[i].start /\ free[i].end <= dayEnd
        /\ \A t \in dayStart..(cursor - 1) : InSweptBusy(t) # InFree(t)

C19_Step == (pc = "sweep" /\ dayStart <= dayEnd) => cursor' >= cursor

\* C19: for a window with dayStart <= dayEnd, at every step of the sweep the
\* cursor lies in [dayStart, dayEnd] and never decreases, every emitted free
\* interval has positive length and lies inside the window, and every instant
\* of [dayStart, cursor) lies in a swept busy interval or in an emitted free
\* interval, never in both.
C19_SweepInvariant == []C19_State /\ [][C19_Step]_vars

\* mid-sweep: one busy interval swept and one still to come, a gap emitted
C19_Witness ==
    /\ pc = "sweep"
    /\ dayStart < dayEnd
    /\ k = 1 /\ Len(busy) = 2
    /\ Len(free) = 1
    /\ dayStart < cursor /\ cursor < dayEnd

----------------------------------------------------------------------------
(* mustParseClock: time.Parse with the layout "15:04", then Hour and Minute *)

MaxClockLen == 5

DigitChars == {"0", "2", "3", "4", "5", "6", "9"}
Chars == DigitChars \cup {":", "x"}

DigitVal(c) ==
    CASE c = "0" -> 0 [] c = "2" -> 2 [] c = "3" -> 3 [] c = "4" -> 4
      [] c = "5" -> 5 [] c = "6" -> 6 [] c = "9" -> 9

\* s has a digit at position i (positions count from 1 here)
isDigit(s, i) == i <= Len(s) /\ s[i] \in DigitChars

NoNumber == [ok |-> FALSE, n |-> 0, rest |-> <<>>]

\* the hour read as a field of two digits
getnum_FixedHour(s, fixed) ==
    IF ~isDigit(s, 1) \/ ~isDigit(s, 2) THEN NoNumber
    ELSE [ok |-> TRUE, n |-> 10 * DigitVal(s[1]) + DigitVal(s[2]),
          rest |-> SubSeq(s, 3, Len(s))]

\* The number at the front of s: two digits when there are two, one digit
\* when the field is not of fixed width, an error otherwise.
getnum(s, fixed) ==
    IF ~isDigit(s, 1) THEN NoNumber
    ELSE IF ~isDigit(s, 2)
         THEN IF fixed THEN NoNumber
              ELSE [ok |-> TRUE, n |-> DigitVal(s[1]), rest |-> Tail(s)]
         ELSE [ok |-> TRUE, n |-> 10 * DigitVal(s[1]) + DigitVal(s[2]),
               rest |-> SubSeq(s, 3, Len(s))]

ParseError == [ok |-> FALSE, h |-> 0, m |-> 0]

\* time.Parse("15:04", s): the hour field "15" takes one or two digits, the
\* minute field "04" exactly two; hour < 24, minute < 60, nothing may follow.
timeParse(s) ==
    LET hr == getnum(s, FALSE) IN
    IF ~hr.ok \/ 24 <= hr.n THEN ParseError
    ELSE IF hr.rest = <<>> \/ Head(hr.rest) # ":" THEN ParseError
    ELSE LET mn == getnum(Tail(hr.rest), TRUE) IN
         IF ~mn.ok \/ 60 <= mn.n THEN ParseError
         ELSE IF mn.rest # <<>> THEN ParseError
         ELSE [ok |-> TRUE, h |-> hr.n, m |-> mn.n]

InitClock ==
    /\ pc = "clock"
    /\ \E n \in 0..MaxClockLen : clockStr \in [1..n -> Chars]
    /\ clockRes = <<>>
    /\ IdleOverlaps /\ IdleMerge /\ IdleFree
    /\ events = <<>> /\ IdleLoop

mustParseClock ==
    /\ pc = "clock"
    /\ LET t == timeParse(clockStr) IN
       IF ~t.ok
       THEN pc' = "fatal" /\ UNCHANGED clockRes
       ELSE pc' = "parsed" /\ clockRes' = <<t.h, t.m>>
    /\ UNCHANGED <<clockStr, events, loopVars, overlapsVars, mergeVars, freeVars>>

NextClock == mustParseClock

SpecClock == InitClock /\ [][NextClock]_vars

----------------------------------------------------------------------------
(* Properties of mustParseClock *)

\* The text is two digits, a colon, two digits
HHMMShape(s) ==
    /\ Len(s) = 5
    /\ \A i \in {1, 2, 4, 5} : s[i] \in DigitChars
    /\ s[3] = ":"

\* The text is one digit, a colon, two digits
HMMShape(s) ==
    /\ Len(s) = 4
    /\ \A i \in {1, 3, 4} : s[i] \in DigitChars
    /\ s[2] = ":"

HourOf(s) ==
    IF Len(s) = 5 THEN 10 * DigitVal(s[1]) + DigitVal(s[2]) ELSE DigitVal(s[1])

MinuteOf(s) == 10 * DigitVal(s[Len(s) - 1]) + DigitVal(s[Len(s)])

\* 00:00 through 23:59
IsHHMM(s) == HHMMShape(s) /\ HourOf(s) < 24 /\ MinuteOf(s) < 60

\* 0:00 through 9:59
IsHMM(s) == HMMShape(s) /\ MinuteOf(s) < 60

ClockReturned == pc = "parsed" /\ clockRes = <<HourOf(clockStr), MinuteOf(clockStr)>>

ClockFatal == pc = "fatal" /\ clockRes = <<>>

\* C16 as stated: once mustParseClock has run, it has returned the
\* (hour, minute) of its argument if the argument is HH:MM between 00:00 and
\* 23:59, and has ended the process without a value for every other argument.
C16_OnlyHHMM ==
    pc # "clock" =>
        IF IsHHMM(clockStr) THEN ClockReturned ELSE ClockFatal

\* C16: once mustParseClock has run, it has returned the (hour, minute) of its
\* argument if the argument is HH:MM between 00:00 and 23:59 or H:MM with a
\* one-digit hour, and has ended the process without a value for every other
\* argument.
C16_ClockContract ==
    pc # "clock" =>
        IF IsHHMM(clockStr) \/ IsHMM(clockStr) THEN ClockReturned ELSE ClockFatal

\* a one-digit hour has been accepted
C16_Witness ==
    /\ pc = "parsed"
    /\ clockStr = <<"9", ":", "0", "0">>
    /\ clockRes = <<9, 0>>

----------------------------------------------------------------------------
(* eventsToIntervals and parseEventTime *)

MaxEvents == 2

MinutesPerDay == 24 * 60

\* Status and Transparency are strings, kept as sequences of characters
Confirmed == <<"c", "o", "n", "f", "i", "r", "m", "e", "d">>
Cancelled == <<"c", "a", "n", "c", "e", "l", "l", "e", "d">>
CanceledUpper == <<"C", "a", "n", "c", "e", "l", "e", "d">>
Opaque == <<"o", "p", "a", "q", "u", "e">>
Transparent == <<"t", "r", "a", "n", "s", "p", "a", "r", "e", "n", "t">>
TransparentUpper == <<"T", "R", "A", "N", "S", "P", "A", "R", "E", "N", "T">>

\* the literals eventsToIntervals compares with
CanceledLiteral == <<"c", "a", "n", "c", "e", "l", "e", "d">>
TransparentLiteral == Transparent

\* case folding of one character
Fold(c) ==
    CASE c = "A" -> "a" [] c = "C" -> "c" [] c = "D" -> "d" [] c = "E" -> "e"
      [] c = "L" -> "l" [] c = "N" -> "n" [] c = "P" -> "p" [] c = "R" -> "r"
      [] c = "S" -> "s" [] c = "T" -> "t" [] OTHER -> c

\* strings.EqualFold
EqualFold(s, u) ==
    /\ Len(s) = Len(u)
    /\ \A i \in 1..Len(s) : Fold(s[i]) = Fold(u[i])

\* A DateTime or Date string: empty, not parseable, or the text of a value
EmptyText == [kind |-> "empty", val |-> 0]
BadText == [kind |-> "bad", val |-> 0]
Text(v) == [kind |-> "ok", val |-> v]

\* e.Start and e.End: nil, or a struct with a DateTime and a Date string
NilField == [nil |-> TRUE, dateTime |-> EmptyText, date |-> EmptyText]
Field(dt, d) == [nil |-> FALSE, dateTime |-> dt, date |-> d]

NotOk == [start |-> ZeroTime, end |-> ZeroTime, ok |-> FALSE]

parseEventTime(e) ==
    IF /\ ~e.start.nil /\ e.start.dateTime.kind # "empty"
       /\ ~e.end.nil /\ e.end.dateTime.kind # "empty"
    THEN IF e.start.dateTime.kind = "bad" \/ e.end.dateTime.kind = "bad"
         THEN NotOk
         ELSE [start |-> e.start.dateTime.val, end |-> e.end.dateTime.val, ok |-> TRUE]
    ELSE IF /\ ~e.start.nil /\ e.start.date.kind # "empty"
            /\ ~e.end.nil /\ e.end.date.kind # "empty"
    THEN IF e.start.date.kind = "bad" \/ e.end.date.kind = "bad"
         THEN NotOk
         ELSE [start |-> e.start.date.val * MinutesPerDay,
               end |-> e.end.date.val * MinutesPerDay, ok |-> TRUE]
    ELSE NotOk

\* an event is kept when its end is not before its start
endsAfterStart_NonStrict(s, en) == en >= s

\* if !en.After(s) { continue }
endsAfterStart(s, en) == en > s

\* the body of the loop of eventsToIntervals: what one event appends
eventInterval(e) ==
    IF EqualFold(e.status, CanceledLiteral) THEN <<>>
    ELSE IF EqualFold(e.transparency, TransparentLiteral) THEN <<>>
    ELSE LET r == parseEventTime(e) IN
         IF ~r.ok THEN <<>>
         ELSE IF ~endsAfterStart(r.start, r.end) THEN <<>>
         ELSE <<[start |-> r.start, end |-> r.end]>>

RECURSIVE eventsToIntervals(_)
eventsToIntervals(es) ==
    IF es = <<>> THEN <<>>
    ELSE eventInterval(Head(es)) \o eventsToIntervals(Tail(es))

Statuses == {Confirmed, Cancelled, CanceledUpper}
Transparencies == {Opaque, Transparent, TransparentUpper}
EventTimes == {10 * 60, 11 * 60}
EventDates == {0, 1}

\* timed events of any status and transparency, some ending at or before their start
TimedEvents ==
    {[status |-> s, transparency |-> tr,
      start |-> Field(Text(x), EmptyText), end |-> Field(Text(y), EmptyText)] :
        s \in Statuses, tr \in Transparencies, x \in EventTimes, y \in EventTimes}

OddFields ==
    {NilField, Field(EmptyText, EmptyText), Field(BadText, EmptyText),
     Field(EmptyText, BadText), Field(Text(10 * 60), EmptyText)}
        \cup {Field(EmptyText, Text(d)) : d \in EventDates}

\* all-day events and events with missing or unparseable times
OddEvents ==
    {[status |-> Confirmed, transparency |-> Opaque, start |-> f, end |-> g] :
        f \in OddFields, g \in OddFields}

Events == TimedEvents \cup OddEvents

InitEvents ==
    /\ pc = "events"
    /\ \E n \in 0..MaxEvents : events \in [1..n -> Events]
    /\ IdleOverlaps /\ IdleMerge /\ IdleFree /\ IdleClock /\ IdleLoop

\* busyAll := eventsToIntervals(events, loc)
ConvertEvents ==
    /\ pc = "events"
    /\ busyAll' = eventsToIntervals(events)
    /\ pc' = "converted"
    /\ UNCHANGED <<dayStart, dayEnd, minDur, busy, k, cursor, free, slots,
                   overlapsVars, mergeVars, mainVars>>

NextEvents == ConvertEvents

SpecEvents == InitEvents /\ [][NextEvents]_vars

----------------------------------------------------------------------------
(* Properties of eventsToIntervals (SpecEvents) *)

IsCancelled(e) == EqualFold(e.status, Cancelled)
IsTransparent(e) == EqualFold(e.transparency, Transparent)

\* the events that are neither cancelled nor transparent, in their order
Blocking(es) == SelectSeq(es, LAMBDA e : ~IsCancelled(e) /\ ~IsTransparent(e))

\* the free slots of day 0 with the default work hours and minimum
DefaultDaySlots(ba) ==
    findFreeSlots(WorkStartDefault, WorkEndDefault, ba, MinMinutesDefault)

\* C14: the busy intervals converted from a list of events are those of the
\* list without its cancelled (status "cancelled" in any letter case) and
\* transparent events, so these events take nothing from the free slots of a
\* day.
C14_CancelledAndTransparentSkipped ==
    pc = "converted" =>
        /\ busyAll = eventsToIntervals(Blocking(events))
        /\ DefaultDaySlots(busyAll) = DefaultDaySlots(eventsToIntervals(Blocking(events)))

\* the interval the times of an event describe, if they describe one
TimesOf(e) == parseEventTime(e)

Skipped(e) ==
    \/ EqualFold(e.status, CanceledLiteral)
    \/ IsTransparent(e)
    \/ ~TimesOf(e).ok
    \/ TimesOf(e).end <= TimesOf(e).start

\* the positions of the events that are not skipped, in ascending order
RECURSIVE KeptFrom(_, _)
KeptFrom(es, i) ==
    IF i > Len(es) THEN <<>>
    ELSE (IF Skipped(es[i]) THEN <<>> ELSE <<i>>) \o KeptFrom(es, i + 1)

\* C20: every interval of the result of eventsToIntervals has end strictly
\* after start; the result has one interval, carrying the event's start and
\* end, for each event that is not skipped, in the order of the events; an
\* event with missing or unparseable times or with end not after start adds
\* nothing and changes nothing of the others.
C20_OnlyProperIntervalsInOrder ==
    pc = "converted" =>
        LET kept == KeptFrom(events, 1) IN
        /\ \A i \in 1..Len(busyAll) : busyAll[i].start < busyAll[i].end
        /\ Len(busyAll) = Len(kept)
        /\ \A i \in 1..Len(kept) :
               /\ busyAll[i].start = TimesOf(events[kept[i]]).start
               /\ busyAll[i].end = TimesOf(events[kept[i]]).end

\* a kept event after an event with unparseable times, and one before an
\* event that ends at its start
C20_Witness ==
    /\ pc = "converted"
    /\ Len(events) = 2
    /\ Len(busyAll) = 1
    /\ \/ ~TimesOf(events[1]).ok
       \/ /\ TimesOf(events[2]).ok
          /\ TimesOf(events[2]).end = TimesOf(events[2]).start

----------------------------------------------------------------------------
(* main: the loop over the days from startDate to endDate *)

MaxDays == 3

\* day.Weekday() of a date counted in days from a Sunday: time.Sunday is 0
\* and time.Saturday is 6
Weekday(d) == d % 7

IsWeekend(d) == Weekday(d) \in {0, 6}

\* the loop ending one day early
loopContinues_Exclusive(d, last) == d < last

\* !day.After(endDate)
loopContinues(d, last) == d <= last

\* time.Date(day.Year(), day.Month(), day.Day(), wsH, wsM, 0, 0, loc), and
\* the same with weH, weM
dayStartOf(d, w) == d * MinutesPerDay + w.ws
dayEndOf(d, w) == d * MinutesPerDay + w.we

\* the default work hours, and 10:00-11:00
WorkHours ==
    {[ws |-> WorkStartDefault, we |-> WorkEndDefault],
     [ws |-> 10 * 60, we |-> 11 * 60]}

\* an all-day event on date d, and a meeting 10:00-11:00 on date d
WholeDay(d) == [start |-> d * MinutesPerDay, end |-> (d + 1) * MinutesPerDay]
Meeting(d) == [start |-> d * MinutesPerDay + 10 * 60, end |-> d * MinutesPerDay + 11 * 60]

\* busy intervals on a Friday, Saturday, Sunday or Monday
LoopIntervals == {WholeDay(d) : d \in 5..8} \cup {Meeting(d) : d \in 5..8}

\* The range starts on a Thursday, Friday, Saturday or Sunday and has at most
\* MaxDays days; the end date is not before the start date.
InitMain ==
    /\ pc = "loop"
    /\ work \in WorkHours
    /\ startDate \in 4..7
    /\ endDate \in startDate..(startDate + MaxDays - 1)
    /\ day = startDate
    /\ visited = <<>> /\ printed = <<>>
    /\ \E n \in 0..MaxBusy : busyAll \in [1..n -> LoopIntervals]
    /\ minDur \in {MinMinutesDefault, 8 * 60}
    /\ dayStart = ZeroTime /\ dayEnd = ZeroTime
    /\ IdleSweep
    /\ IdleOverlaps /\ IdleMerge /\ IdleClock /\ events = <<>>

\* The loop condition holds: a Saturday or Sunday is passed over, any other
\* day calls findFreeSlots with the work hours of that day.
LoopDay ==
    /\ pc = "loop"
    /\ loopContinues(day, endDate)
    /\ visited' = Append(visited, day)
    /\ IF IsWeekend(day)
       THEN /\ day' = day + 1
            /\ UNCHANGED <<pc, dayStart, dayEnd, busy, k, cursor, free, slots>>
       ELSE /\ dayStart' = dayStartOf(day, work)
            /\ dayEnd' = dayEndOf(day, work)
            /\ busy' = <<>> /\ k' = 0 /\ cursor' = ZeroTime
            /\ free' = <<>> /\ slots' = <<>>
            /\ pc' = "start"
            /\ UNCHANGED day
    /\ UNCHANGED <<busyAll, minDur, work, startDate, endDate, printed,
                   clockVars, events, overlapsVars, mergeVars>>

\* findFreeSlots has returned: a line is printed unless there is no slot
LoopPrint ==
    /\ pc = "done"
    /\ printed' = IF Len(slots) = 0 THEN printed
                  ELSE Append(printed, [date |-> day, slots |-> slots])
    /\ day' = day + 1
    /\ pc' = "loop"
    /\ UNCHANGED <<freeVars, work, startDate, endDate, visited,
                   clockVars, events, overlapsVars, mergeVars>>

\* The loop condition fails
LoopExit ==
    /\ pc = "loop"
    /\ ~loopContinues(day, endDate)
    /\ pc' = "exit"
    /\ UNCHANGED <<freeVars, mainVars, overlapsVars, mergeVars>>

NextMain ==
    \/ LoopDay
    \/ CollectBusy \/ SweepStep \/ SweepEnd \/ FilterSlots
    \/ LoopPrint
    \/ LoopExit

SpecMain == InitMain /\ [][NextMain]_vars

\* the program keeps running until it exits
SpecMainFair == SpecMain /\ WF_vars(NextMain)

----------------------------------------------------------------------------
(* Properties of the loop over the days (SpecMain, SpecMainFair) *)

\* the dates from first to last in ascending order, none if last < first
DatesFromTo(first, last) == [i \in 1..(last - first + 1) |-> first + i - 1]

\* the lines due for the dates from d to last: one for each Monday-Friday
\* for which findFreeSlots returns a slot
RECURSIVE LinesFromTo(_, _)
LinesFromTo(d, last) ==
    IF d > last THEN <<>>
    ELSE LET s == findFreeSlots(dayStartOf(d, work), dayEndOf(d, work), busyAll, minDur)
         IN  (IF ~IsWeekend(d) /\ s # <<>> THEN <<[date |-> d, slots |-> s]>> ELSE <<>>)
                 \o LinesFromTo(d + 1, last)

InCall == pc \in {"start", "sweep", "swept", "done"}

\* the loop body has run once for each date before day, and for day itself
\* during the call of findFreeSlots, in ascending order
VisitedInOrder ==
    visited = DatesFromTo(startDate, IF InCall THEN day ELSE day - 1)

\* the lines printed are those due for the dates before day
PrintedAsDue == printed = LinesFromTo(startDate, day - 1)

\* C15: the loop body runs once for each date from startDate to endDate, in
\* ascending order, and the loop then ends; the lines printed are one for each
\* date that is Monday-Friday and has at least one slot from findFreeSlots,
\* none for a Saturday, a Sunday or a day without a slot.
C15_LoopVisitsEachDayAndPrints ==
    /\ [](VisitedInOrder /\ PrintedAsDue)
    /\ [](pc = "exit" => day = endDate + 1)
    /\ <>(pc = "exit")

\* Thursday to Saturday: a line for Thursday, no slot on Friday, Saturday passed over
C15_Witness ==
    /\ pc = "exit"
    /\ startDate = 4 /\ endDate = 6
    /\ visited = <<4, 5, 6>>
    /\ Len(printed) = 1 /\ printed[1].date = 4

====
